---- MODULE Spec2Model ----
(***************************************************************************)
(* Screen Light: the window lifecycle, the brightness controller, the      *)
(* message loop and the console control handler, in the two shutdown       *)
(* variants the repository holds:                                          *)
(*   "posted" - src/src/screen_light.cpp lines 1-296: consoleHandler posts *)
(*              WM_APP_SHUTDOWN to g_hMainWnd, the loop ends on WM_QUIT;   *)
(*   "flag"   - src/unnamed/part_000: consoleHandler clears the atomic     *)
(*              keepRunning, the loop polls it.                            *)
(* The dispatch thread is followed statement by statement through pc; the  *)
(* handler runs on a thread of the OS and is one atomic step.              *)
(***************************************************************************)
EXTENDS Integers, Sequences, FiniteSets, TLC

VARIABLES
    variant,        \* which of the two builds runs
    pc,             \* position of the dispatch (main) thread
    registered,     \* SetConsoleCtrlHandler succeeded
    gHMainWnd,      \* g_hMainWnd: "NULL" or "hwnd" (posted variant)
    keepRunning,    \* std::atomic<bool> keepRunning (flag variant)
    hwndValid,      \* the window exists (created and not destroyed)
    queue,          \* posted messages of the thread, oldest first
    quitPending,    \* PostQuitMessage was called: WM_QUIT comes when the queue is empty
    msg,            \* MSG msg of the loop: the last message retrieved
    grayLevel,      \* g_grayLevel
    classBrush,     \* GCLP_HBRBACKGROUND: gray level of the brush in the slot, or NullBrush
    liveBrushes,    \* number of brush objects created and not deleted
    hNewBrush,      \* local of UpdateBackgroundColor
    hOldBrush,      \* local of UpdateBackgroundColor
    allocFailures,  \* CreateSolidBrush failures injected inside adjustments
    mover,          \* MouseMover: [x, y, dx, dy, screenWidth, screenHeight]
    ops,            \* what the current WndProc invocation did, in order
    exitCode,       \* value returned by main / WinMain, "NONE" while running
    nInputs,        \* user messages posted so far
    nSignals,       \* console control events delivered so far
    handled,        \* some handler invocation returned TRUE
    triggered,      \* closing triggers issued so far: subset of {"esc","close","signal"}
    destroyCount,   \* DestroyWindow calls that destroyed the window
    teardownReleases, \* DeleteObject calls made by WM_DESTROY
    quitCount,      \* PostQuitMessage calls
    flagWrites,     \* stores to keepRunning, per thread
    sigIdle,        \* a signal took effect while the loop was idle with an empty queue
    ticksAfter,     \* mover.update() calls since then
    lateArrivals,   \* messages posted since PeekMessage found the queue empty, up to the animation step
    failures,       \* startup calls that failed: subset of {"handler","brush","class","window"}
    lastRefused,    \* ctrlType of the last consoleHandler call that returned FALSE, "NONE" if none
    powerCalls,     \* power-state requests issued (SetThreadExecutionState): the code makes none
    toggledOff,     \* an odd number of M key-downs has been dispatched to WndProc
    cursor,         \* position of the mouse cursor: the last one given to SetCursorPos
    scenario,       \* a scripted run: its id, the keys still to press, brushes allocated in it
    handlerOps,     \* what the last consoleHandler call that returned TRUE did, in order
    gIsVerbose,     \* g_isVerbose: the program was started with --verbose
    logged          \* the lines the last step wrote to the console

vars == <<variant, pc, registered, gHMainWnd, keepRunning, hwndValid, queue,
          quitPending, msg, grayLevel, classBrush, liveBrushes, hNewBrush,
          hOldBrush, allocFailures, mover, ops, exitCode, nInputs, nSignals,
          handled, triggered, destroyCount, teardownReleases, quitCount,
          flagWrites, sigIdle, ticksAfter, lateArrivals, failures, lastRefused,
          powerCalls, toggledOff, cursor, scenario, handlerOps, gIsVerbose,
          logged>>

----------------------------------------------------------------------------
(* Bounds of the model *)
MaxInputs == 2
MaxSignals == 2
MaxAllocFailures == 1
CountCap == 2

(* Program constants *)
kInitialX == 100
kInitialY == 100
kVelocity == 2
InitialGrayLevel == 255
CoarseStep == 10
FineStep == 1

NullBrush == -1

Variants == {"posted", "flag"}
ScreenSizes == {<<101, 101>>}
\* Screens for the animator left to run: square and oblong, wider and narrower
\* than the start position
MoverScreens == {<<101, 101>>, <<104, 104>>, <<104, 108>>, <<112, 106>>, <<60, 130>>}

\* Where the user left the cursor before the program started
CursorStart == <<102, 102>>

Min(a, b) == IF a < b THEN a ELSE b
Bump(n) == Min(n + 1, CountCap)

----------------------------------------------------------------------------
(* Messages *)
Keys == {"VK_ESCAPE", "VK_UP", "VK_DOWN", "M", "OTHER"}
KeyDown(k, s) == [message |-> "WM_KEYDOWN", wParam |-> k, shift |-> s]
CloseMsg == [message |-> "WM_CLOSE", wParam |-> "0", shift |-> FALSE]
ShutdownMsg == [message |-> "WM_APP_SHUTDOWN", wParam |-> "0", shift |-> FALSE]
QuitMsg == [message |-> "WM_QUIT", wParam |-> "0", shift |-> FALSE]
EmptyMsg == [message |-> "NONE", wParam |-> "0", shift |-> FALSE]

UserMessages ==
    {KeyDown(k, FALSE) : k \in Keys}
        \cup {KeyDown(k, TRUE) : k \in {"VK_UP", "VK_DOWN"}}
        \cup {CloseMsg}

CtrlTypes == {"CTRL_C_EVENT", "CTRL_BREAK_EVENT", "CTRL_CLOSE_EVENT", "CTRL_LOGOFF_EVENT"}

\* The kinds of control event consoleHandler has no case for
OtherCtrlTypes == {"CTRL_LOGOFF_EVENT", "CTRL_SHUTDOWN_EVENT"}

(* Scripted runs: the keys a user presses one after the other *)
NoScenario == [id |-> "none", keys |-> <<>>, allocs |-> 0]

Presses(n, k, s) == [i \in 1..n |-> KeyDown(k, s)]

\* Down once, then Down thirty times with Shift held
DownScript == Presses(1, "VK_DOWN", FALSE) \o Presses(30, "VK_DOWN", TRUE)

\* Down to level 0, then Up a hundred times
UpScript == Presses(26, "VK_DOWN", FALSE) \o Presses(100, "VK_UP", FALSE)

Scenarios ==
    {[id |-> "down", keys |-> DownScript, allocs |-> 0],
     [id |-> "up", keys |-> UpScript, allocs |-> 0]}

----------------------------------------------------------------------------
(* Pure parts of the code *)

\* g_grayLevel declared char instead of BYTE
ToSignedChar(n) == ((n + 128) % 256) - 128

\* static_cast<BYTE>(newGrayLevel)
ToBYTE(n) == n % 256

\* the Shift test forgotten: every step is coarse
StepOfCoarse(shift) == CoarseStep

\* const int step = (GetKeyState(VK_SHIFT) & 0x8000) ? 1 : 10;
StepOf(shift) == IF shift THEN FineStep ELSE CoarseStep

\* the clamp at 255 forgotten
NewGrayLevelNoUpperClamp(level, goLighter, step) ==
    IF goLighter
    THEN level + step
    ELSE (IF level - step < 0 THEN 0 ELSE level - step)

\* the clamp at 0 forgotten
NewGrayLevelNoLowerClamp(level, goLighter, step) ==
    IF goLighter
    THEN (IF level + step > 255 THEN 255 ELSE level + step)
    ELSE level - step

\* int newGrayLevel of UpdateBackgroundColor after the two clamps
NewGrayLevel(level, goLighter, step) ==
    IF goLighter
    THEN (IF level + step > 255 THEN 255 ELSE level + step)
    ELSE (IF level - step < 0 THEN 0 ELSE level - step)

\* the comparison forgotten: every adjustment reallocates
AlwaysUpdate(newLevel, level) == TRUE

\* if (newGrayLevel != g_grayLevel)
NeedsUpdate(newLevel, level) == newLevel # level

\* the brush main created is taken for not ours to delete
DeleteUnlessInitial(hOld) == hOld # NullBrush /\ hOld # InitialGrayLevel

\* the old brush never deleted
NeverDelete(hOld) == FALSE

\* if (hOldBrush) DeleteObject(hOldBrush);
ShouldDelete(hOld) == hOld # NullBrush

\* any key without a case of its own closes the window, as a screen saver does
WndProcCaseAnyKeyCloses(v, m) ==
    CASE m.message = "WM_APP_SHUTDOWN" /\ v = "posted" -> "destroy"
      [] m.message = "WM_CLOSE" -> "destroy"
      [] m.message = "WM_KEYDOWN" /\ m.wParam = "VK_UP" -> "lighter"
      [] m.message = "WM_KEYDOWN" /\ m.wParam = "VK_DOWN" -> "darker"
      [] m.message = "WM_KEYDOWN" -> "destroy"
      [] OTHER -> "default"

\* VK_ESCAPE without a case
WndProcCaseNoEscape(v, m) ==
    CASE m.message = "WM_APP_SHUTDOWN" /\ v = "posted" -> "destroy"
      [] m.message = "WM_CLOSE" -> "destroy"
      [] m.message = "WM_KEYDOWN" /\ m.wParam = "VK_UP" -> "lighter"
      [] m.message = "WM_KEYDOWN" /\ m.wParam = "VK_DOWN" -> "darker"
      [] m.message = "WM_KEYDOWN" -> "ignore"
      [] OTHER -> "default"

\* WM_APP_SHUTDOWN without a case: it goes to DefWindowProc
WndProcCaseNoShutdown(v, m) ==
    CASE m.message = "WM_CLOSE" -> "destroy"
      [] m.message = "WM_KEYDOWN" /\ m.wParam = "VK_ESCAPE" -> "destroy"
      [] m.message = "WM_KEYDOWN" /\ m.wParam = "VK_UP" -> "lighter"
      [] m.message = "WM_KEYDOWN" /\ m.wParam = "VK_DOWN" -> "darker"
      [] m.message = "WM_KEYDOWN" -> "ignore"
      [] OTHER -> "default"

\* The switch of WndProc: what the procedure does with message m.
WndProcCase(v, m) ==
    CASE m.message = "WM_APP_SHUTDOWN" /\ v = "posted" -> "destroy"
      [] m.message = "WM_CLOSE" -> "destroy"
      [] m.message = "WM_KEYDOWN" /\ m.wParam = "VK_ESCAPE" -> "destroy"
      [] m.message = "WM_KEYDOWN" /\ m.wParam = "VK_UP" -> "lighter"
      [] m.message = "WM_KEYDOWN" /\ m.wParam = "VK_DOWN" -> "darker"
      [] m.message = "WM_KEYDOWN" -> "ignore"
      [] OTHER -> "default"

\* PostQuitMessage also called by the WM_CLOSE case
ClosePostsQuit(m) == IF m.message = "WM_CLOSE" THEN 1 ELSE 0

\* case WM_CLOSE: DestroyWindow(hwnd); break; and case VK_ESCAPE: the number
\* of PostQuitMessage calls the case makes itself
ClosePosts(m) == 0

\* WM_DESTROY: if (hBrush) DeleteObject(hBrush); number of brushes it deletes
OnDestroyReleases(hBrush) == IF hBrush # NullBrush THEN 1 ELSE 0

\* the handler without the case for CTRL_CLOSE_EVENT
HandlerReturnsNoClose(ctrlType) == ctrlType \in {"CTRL_C_EVENT", "CTRL_BREAK_EVENT"}

\* the handler with the three case labels replaced by default:
HandlerReturnsAll(ctrlType) == TRUE

\* case CTRL_C_EVENT: case CTRL_BREAK_EVENT: case CTRL_CLOSE_EVENT: ... return TRUE
HandlerReturns(ctrlType) ==
    ctrlType \in {"CTRL_C_EVENT", "CTRL_BREAK_EVENT", "CTRL_CLOSE_EVENT"}

\* The calls a consoleHandler invocation makes for a kind it handles, in order
HandlerSteps(v, hwnd) ==
    IF v = "flag" THEN <<"log", "store", "return">>
    ELSE IF hwnd # "NULL" THEN <<"log", "post", "return">>
    ELSE <<"log", "return">>

\* the handler toggling the flag
HandlerToggle(old) == ~old

\* keepRunning = false; in consoleHandler: the value stored
HandlerStore(old) == FALSE

\* keepRunning = false; on WM_QUIT in the loop: the value stored
QuitStore(old) == FALSE

\* MouseMover::update(): SetCursorPos(x, y), advance, bounce
\* update() testing the position before the advance: the bounce comes a tick late
MoverUpdateLate(m) ==
    [m EXCEPT !.x = m.x + m.dx, !.y = m.y + m.dy,
              !.dx = IF m.x <= 0 \/ m.x >= m.screenWidth - 1 THEN -m.dx ELSE m.dx,
              !.dy = IF m.y <= 0 \/ m.y >= m.screenHeight - 1 THEN -m.dy ELSE m.dy]

\* update() stopping at an edge instead of bouncing off it
MoverUpdateStop(m) ==
    LET nx == m.x + m.dx
        ny == m.y + m.dy
    IN  [m EXCEPT !.x = nx, !.y = ny,
                  !.dx = IF nx <= 0 \/ nx >= m.screenWidth - 1 THEN 0 ELSE m.dx,
                  !.dy = IF ny <= 0 \/ ny >= m.screenHeight - 1 THEN 0 ELSE m.dy]

\* update() with one test for both edges: a hit on either reverses both
MoverUpdateCoupled(m) ==
    LET nx == m.x + m.dx
        ny == m.y + m.dy
        hit == \/ nx <= 0 \/ nx >= m.screenWidth - 1
               \/ ny <= 0 \/ ny >= m.screenHeight - 1
    IN  [m EXCEPT !.x = nx, !.y = ny,
                  !.dx = IF hit THEN -m.dx ELSE m.dx,
                  !.dy = IF hit THEN -m.dy ELSE m.dy]

MoverUpdate(m) ==
    LET nx == m.x + m.dx
        ny == m.y + m.dy
    IN  [m EXCEPT !.x = nx, !.y = ny,
                  !.dx = IF nx <= 0 \/ nx >= m.screenWidth - 1 THEN -m.dx ELSE m.dx,
                  !.dy = IF ny <= 0 \/ ny >= m.screenHeight - 1 THEN -m.dy ELSE m.dy]

\* MouseMover(): the member initialisers
MoverInit(w, h) ==
    [x |-> kInitialX, y |-> kInitialY, dx |-> kVelocity, dy |-> kVelocity,
     screenWidth |-> w, screenHeight |-> h]

\* a loop that animates after every dispatched message
LoopTopAnimate == "idle"

\* Where the loop continues after DispatchMessage returns
LoopTop == "peek"

\* logMessage(message): the line is written only in verbose mode
LogMessage(line) == IF gIsVerbose THEN <<line>> ELSE <<>>

----------------------------------------------------------------------------
InitArgs(screens, scenarios, verbosity) ==
    /\ variant \in Variants
    /\ pc = "start"
    /\ registered = FALSE
    /\ gHMainWnd = "NULL"
    /\ keepRunning = TRUE
    /\ hwndValid = FALSE
    /\ queue = <<>>
    /\ quitPending = FALSE
    /\ msg = EmptyMsg
    /\ grayLevel = InitialGrayLevel
    /\ classBrush = NullBrush
    /\ liveBrushes = 0
    /\ hNewBrush = NullBrush
    /\ hOldBrush = NullBrush
    /\ allocFailures = 0
    /\ \E s \in screens : mover = MoverInit(s[1], s[2])
    /\ ops = <<>>
    /\ exitCode = "NONE"
    /\ nInputs = 0
    /\ nSignals = 0
    /\ handled = FALSE
    /\ triggered = {}
    /\ destroyCount = 0
    /\ teardownReleases = 0
    /\ quitCount = 0
    /\ flagWrites = [handler |-> 0, dispatch |-> 0]
    /\ sigIdle = FALSE
    /\ ticksAfter = 0
    /\ lateArrivals = 0
    /\ failures = {}
    /\ lastRefused = "NONE"
    /\ powerCalls = <<>>
    /\ toggledOff = FALSE
    /\ cursor = CursorStart
    /\ scenario \in scenarios
    /\ handlerOps = <<>>
    /\ gIsVerbose \in verbosity
    /\ logged = <<>>

\* A start without --verbose: bool g_isVerbose = false
InitFrom(screens, scenarios) == InitArgs(screens, scenarios, {FALSE})

InitWith(screens) == InitFrom(screens, {NoScenario})

Init == InitWith(ScreenSizes)

\* SetCursorPos(x, y): the position the cursor is put at
CursorSet(m) == <<m.x, m.y>>

\* Messages posted after PeekMessage returned FALSE and before mover.update()
Late(n, posted) == IF pc \in {"check", "idle"} THEN n + posted ELSE n

threadVars == <<variant, registered, gHMainWnd, keepRunning, hwndValid, queue,
                quitPending, msg, grayLevel, classBrush, liveBrushes, hNewBrush,
                hOldBrush, allocFailures, mover, ops, exitCode, destroyCount,
                teardownReleases, quitCount, flagWrites, ticksAfter>>
envVars == <<nInputs, nSignals, handled, triggered, sigIdle>>

----------------------------------------------------------------------------
(* Startup: main() / WinMain() up to the loop *)

\* SetConsoleCtrlHandler(consoleHandler, TRUE): a warning in the posted
\* variant, EXIT_FAILURE in the flag variant.
RegisterHandler ==
    /\ pc = "start"
    /\ \E ok \in BOOLEAN :
        /\ registered' = ok
        /\ failures' = IF ok THEN failures ELSE failures \cup {"handler"}
        /\ IF ok \/ variant = "posted"
           THEN pc' = "brush" /\ exitCode' = exitCode
           ELSE pc' = "failed" /\ exitCode' = "EXIT_FAILURE"
    /\ UNCHANGED <<variant, gHMainWnd, keepRunning, hwndValid, queue, quitPending,
                   msg, grayLevel, classBrush, liveBrushes, hNewBrush, hOldBrush,
                   allocFailures, mover, ops, destroyCount, teardownReleases,
                   quitCount, flagWrites, ticksAfter>>
    /\ UNCHANGED envVars
    /\ UNCHANGED <<lateArrivals, lastRefused, powerCalls, toggledOff, cursor>>
    /\ UNCHANGED <<scenario, handlerOps>>
    /\ logged' = IF registered' THEN <<>> ELSE LogMessage("handler")
    /\ UNCHANGED gIsVerbose

\* HBRUSH hInitialBrush = CreateSolidBrush(RGB(g_grayLevel, ...));
CreateInitialBrush ==
    /\ pc = "brush"
    /\ \E ok \in BOOLEAN :
        IF ok
        THEN /\ liveBrushes' = liveBrushes + 1
             /\ hNewBrush' = grayLevel
             /\ pc' = "class"
             /\ exitCode' = exitCode
             /\ failures' = failures
        ELSE /\ UNCHANGED <<liveBrushes, hNewBrush>>
             /\ pc' = "failed"
             /\ exitCode' = "EXIT_FAILURE"
             /\ failures' = failures \cup {"brush"}
    /\ UNCHANGED <<variant, registered, gHMainWnd, keepRunning, hwndValid, queue,
                   quitPending, msg, grayLevel, classBrush, hOldBrush,
                   allocFailures, mover, ops, destroyCount, teardownReleases,
                   quitCount, flagWrites, ticksAfter>>
    /\ UNCHANGED envVars
    /\ UNCHANGED <<lateArrivals, lastRefused, powerCalls, toggledOff, cursor>>
    /\ UNCHANGED <<scenario, handlerOps>>
    /\ logged' = IF pc' = "failed" THEN LogMessage("error") ELSE <<>>
    /\ UNCHANGED gIsVerbose

\* wc.hbrBackground = hInitialBrush; RegisterClassEx(&wc)
RegisterClass ==
    /\ pc = "class"
    /\ \E ok \in BOOLEAN :
        IF ok
        THEN /\ classBrush' = hNewBrush
             /\ hNewBrush' = NullBrush
             /\ pc' = "window"
             /\ exitCode' = exitCode
             /\ failures' = failures
        ELSE /\ UNCHANGED <<classBrush, hNewBrush>>
             /\ pc' = "failed"
             /\ exitCode' = "EXIT_FAILURE"
             /\ failures' = failures \cup {"class"}
    /\ UNCHANGED <<variant, registered, gHMainWnd, keepRunning, hwndValid, queue,
                   quitPending, msg, grayLevel, liveBrushes, hOldBrush,
                   allocFailures, mover, ops, destroyCount, teardownReleases,
                   quitCount, flagWrites, ticksAfter>>
    /\ UNCHANGED envVars
    /\ UNCHANGED <<lateArrivals, lastRefused, powerCalls, toggledOff, cursor>>
    /\ UNCHANGED <<scenario, handlerOps>>
    /\ logged' = IF pc' = "failed" THEN LogMessage("error") ELSE <<>>
    /\ UNCHANGED gIsVerbose

\* main without the if (!hwnd) test after CreateWindowEx
CreateWindowUnchecked ==
    /\ pc = "window"
    /\ \E ok \in BOOLEAN :
        /\ hwndValid' = ok
        /\ gHMainWnd' = IF ok /\ variant = "posted" THEN "hwnd" ELSE gHMainWnd
        /\ failures' = IF ok THEN failures ELSE failures \cup {"window"}
    /\ pc' = "show"
    /\ UNCHANGED <<variant, registered, keepRunning, queue, quitPending, msg,
                   grayLevel, classBrush, liveBrushes, hNewBrush, hOldBrush,
                   allocFailures, mover, ops, exitCode, destroyCount,
                   teardownReleases, quitCount, flagWrites, ticksAfter>>
    /\ UNCHANGED envVars
    /\ UNCHANGED <<lateArrivals, lastRefused, powerCalls, toggledOff, cursor>>
    /\ UNCHANGED <<scenario, handlerOps>>
    /\ logged' = <<>>
    /\ UNCHANGED gIsVerbose

\* hwnd = CreateWindowEx(...); g_hMainWnd = hwnd; if (!hwnd) return EXIT_FAILURE;
CreateWindow ==
    /\ pc = "window"
    /\ \E ok \in BOOLEAN :
        IF ok
        THEN /\ hwndValid' = TRUE
             /\ gHMainWnd' = IF variant = "posted" THEN "hwnd" ELSE gHMainWnd
             /\ pc' = "show"
             /\ exitCode' = exitCode
             /\ failures' = failures
        ELSE /\ UNCHANGED <<hwndValid, gHMainWnd>>
             /\ pc' = "failed"
             /\ exitCode' = "EXIT_FAILURE"
             /\ failures' = failures \cup {"window"}
    /\ UNCHANGED <<variant, registered, keepRunning, queue, quitPending, msg,
                   grayLevel, classBrush, liveBrushes, hNewBrush, hOldBrush,
                   allocFailures, mover, ops, destroyCount, teardownReleases,
                   quitCount, flagWrites, ticksAfter>>
    /\ UNCHANGED envVars
    /\ UNCHANGED <<lateArrivals, lastRefused, powerCalls, toggledOff, cursor>>
    /\ UNCHANGED <<scenario, handlerOps>>
    /\ logged' = IF pc' = "failed" THEN LogMessage("error") ELSE <<>>
    /\ UNCHANGED gIsVerbose

\* ShowWindow; UpdateWindow; MouseMover mover; MSG msg = {};
ShowWindow ==
    /\ pc = "show"
    /\ mover' = MoverInit(mover.screenWidth, mover.screenHeight)
    /\ msg' = EmptyMsg
    /\ pc' = IF variant = "flag" THEN "outer" ELSE "peek"
    /\ UNCHANGED <<variant, registered, gHMainWnd, keepRunning, hwndValid, queue,
                   quitPending, grayLevel, classBrush, liveBrushes, hNewBrush,
                   hOldBrush, allocFailures, ops, exitCode, destroyCount,
                   teardownReleases, quitCount, flagWrites, ticksAfter>>
    /\ UNCHANGED envVars
    /\ UNCHANGED <<lateArrivals, failures, lastRefused, powerCalls, toggledOff, cursor>>
    /\ UNCHANGED <<scenario, handlerOps>>
    /\ logged' = LogMessage("started") \o LogMessage("dimensions")
    /\ UNCHANGED gIsVerbose

----------------------------------------------------------------------------
(* The message loop *)

\* while (keepRunning.load()) of the flag variant; on exit ShowCursor(TRUE),
\* the log line and return (int)msg.wParam.
OuterCheck ==
    /\ pc = "outer"
    /\ IF keepRunning
       THEN pc' = "peek" /\ exitCode' = exitCode
       ELSE pc' = "exited" /\ exitCode' = msg.wParam
    /\ UNCHANGED <<variant, registered, gHMainWnd, keepRunning, hwndValid, queue,
                   quitPending, msg, grayLevel, classBrush, liveBrushes, hNewBrush,
                   hOldBrush, allocFailures, mover, ops, destroyCount,
                   teardownReleases, quitCount, flagWrites, ticksAfter>>
    /\ UNCHANGED envVars
    /\ UNCHANGED <<lateArrivals, failures, lastRefused, powerCalls, toggledOff, cursor>>
    /\ UNCHANGED <<scenario, handlerOps>>
    /\ logged' = IF pc' = "exited" THEN LogMessage("terminated") ELSE <<>>
    /\ UNCHANGED gIsVerbose

\* PeekMessage(&msg, NULL, 0, 0, PM_REMOVE) and the test for WM_QUIT. WM_QUIT is
\* returned once PostQuitMessage was called and no posted message is left.
PeekMessage ==
    /\ pc = "peek"
    /\ IF queue # <<>>
       THEN /\ msg' = Head(queue)
            /\ queue' = Tail(queue)
            /\ pc' = "dispatch"
            /\ lateArrivals' = lateArrivals
            /\ UNCHANGED <<quitPending, keepRunning, flagWrites, exitCode>>
       ELSE IF quitPending
       THEN /\ msg' = QuitMsg
            /\ quitPending' = FALSE
            /\ queue' = queue
            /\ lateArrivals' = 0
            /\ IF variant = "posted"
               THEN /\ pc' = "exited"
                    /\ exitCode' = QuitMsg.wParam
                    /\ UNCHANGED <<keepRunning, flagWrites>>
               ELSE /\ keepRunning' = QuitStore(keepRunning)
                    /\ flagWrites' = [flagWrites EXCEPT !.dispatch = Bump(@)]
                    /\ pc' = "check"
                    /\ exitCode' = exitCode
       ELSE /\ pc' = IF variant = "posted" THEN "idle" ELSE "check"
            /\ lateArrivals' = 0
            /\ UNCHANGED <<msg, queue, quitPending, keepRunning, flagWrites, exitCode>>
    /\ UNCHANGED <<variant, registered, gHMainWnd, hwndValid, grayLevel, classBrush,
                   liveBrushes, hNewBrush, hOldBrush, allocFailures, mover, ops,
                   destroyCount, teardownReleases, quitCount, ticksAfter>>
    /\ UNCHANGED envVars
    /\ UNCHANGED <<failures, lastRefused, powerCalls, toggledOff, cursor>>
    /\ UNCHANGED <<scenario, handlerOps>>
    /\ logged' = IF pc' = "exited" THEN LogMessage("terminated") ELSE <<>>
    /\ UNCHANGED gIsVerbose

\* if (!keepRunning.load()) break; of the flag variant
InnerCheck ==
    /\ pc = "check"
    /\ IF keepRunning
       THEN pc' = "idle" /\ exitCode' = exitCode
       ELSE pc' = "exited" /\ exitCode' = msg.wParam
    /\ UNCHANGED <<variant, registered, gHMainWnd, keepRunning, hwndValid, queue,
                   quitPending, msg, grayLevel, classBrush, liveBrushes, hNewBrush,
                   hOldBrush, allocFailures, mover, ops, destroyCount,
                   teardownReleases, quitCount, flagWrites>>
    /\ UNCHANGED <<ticksAfter>>
    /\ UNCHANGED envVars
    /\ UNCHANGED <<lateArrivals, failures, lastRefused, powerCalls, toggledOff, cursor>>
    /\ UNCHANGED <<scenario, handlerOps>>
    /\ logged' = IF pc' = "exited" THEN LogMessage("terminated") ELSE <<>>
    /\ UNCHANGED gIsVerbose

\* an animation step that also puts the level back to its initial value
IdleResetsLevel ==
    /\ pc = "idle"
    /\ cursor' = CursorSet(mover)
    /\ mover' = MoverUpdate(mover)
    /\ grayLevel' = InitialGrayLevel
    /\ lateArrivals' = 0
    /\ ticksAfter' = IF sigIdle THEN Bump(ticksAfter) ELSE ticksAfter
    /\ pc' = IF variant = "flag" THEN "outer" ELSE "peek"
    /\ UNCHANGED <<variant, registered, gHMainWnd, keepRunning, hwndValid, queue,
                   quitPending, msg, classBrush, liveBrushes, hNewBrush,
                   hOldBrush, allocFailures, ops, exitCode, destroyCount,
                   teardownReleases, quitCount, flagWrites>>
    /\ UNCHANGED envVars
    /\ UNCHANGED <<failures, lastRefused, powerCalls, toggledOff>>
    /\ UNCHANGED <<scenario, handlerOps>>
    /\ logged' = <<>>
    /\ UNCHANGED gIsVerbose

\* mover.update(); std::this_thread::sleep_for(config::kFrameDelay);
Idle ==
    /\ pc = "idle"
    /\ cursor' = CursorSet(mover)
    /\ mover' = MoverUpdate(mover)
    /\ lateArrivals' = 0
    /\ ticksAfter' = IF sigIdle THEN Bump(ticksAfter) ELSE ticksAfter
    /\ pc' = IF variant = "flag" THEN "outer" ELSE "peek"
    /\ UNCHANGED <<variant, registered, gHMainWnd, keepRunning, hwndValid, queue,
                   quitPending, msg, grayLevel, classBrush, liveBrushes, hNewBrush,
                   hOldBrush, allocFailures, ops, exitCode, destroyCount,
                   teardownReleases, quitCount, flagWrites>>
    /\ UNCHANGED envVars
    /\ UNCHANGED <<failures, lastRefused, powerCalls, toggledOff>>
    /\ UNCHANGED <<scenario, handlerOps>>
    /\ logged' = <<>>
    /\ UNCHANGED gIsVerbose

----------------------------------------------------------------------------
(* WndProc *)

\* the closing cases releasing the brush and posting the quit message
\* themselves, without DestroyWindow: the window stays and so does its queue
DoDestroyHide ==
    /\ liveBrushes' = liveBrushes - OnDestroyReleases(classBrush)
    /\ teardownReleases' = Min(teardownReleases + OnDestroyReleases(classBrush), CountCap)
    /\ quitPending' = TRUE
    /\ quitCount' = Min(quitCount + ClosePosts(msg) + 1, CountCap)
    /\ ops' = <<"release", "quit">>
    /\ pc' = LoopTop
    /\ UNCHANGED <<hwndValid, queue, destroyCount, grayLevel, hNewBrush, hOldBrush,
                   allocFailures, classBrush>>

\* DestroyWindow(hwnd): the window is destroyed, its posted messages are
\* flushed, and WM_DESTROY is sent: the class brush is deleted and
\* PostQuitMessage(0) is called.
DoDestroy ==
    /\ hwndValid' = FALSE
    /\ queue' = <<>>
    /\ destroyCount' = Bump(destroyCount)
    /\ liveBrushes' = liveBrushes - OnDestroyReleases(classBrush)
    /\ teardownReleases' = Min(teardownReleases + OnDestroyReleases(classBrush), CountCap)
    /\ quitPending' = TRUE
    /\ quitCount' = Min(quitCount + ClosePosts(msg) + 1, CountCap)
    /\ ops' = <<"destroy", "release", "quit">>
                \o (IF queue # <<>> THEN <<"flush">> ELSE <<>>)
    /\ pc' = LoopTop
    /\ UNCHANGED <<grayLevel, hNewBrush, hOldBrush, allocFailures, classBrush>>

\* UpdateBackgroundColor(hwnd, goLighter, step) up to and including
\* CreateSolidBrush: the clamp, the comparison, the store to g_grayLevel.
DoAdjust(goLighter) ==
    LET newGrayLevel == NewGrayLevel(grayLevel, goLighter, StepOf(msg.shift)) IN
    /\ UNCHANGED <<hwndValid, queue, destroyCount, teardownReleases, quitPending,
                   quitCount, classBrush, hOldBrush>>
    /\ IF NeedsUpdate(newGrayLevel, grayLevel)
       THEN /\ grayLevel' = ToBYTE(newGrayLevel)
            /\ \E ok \in BOOLEAN :
                IF ok
                THEN /\ hNewBrush' = grayLevel'
                     /\ liveBrushes' = liveBrushes + 1
                     /\ ops' = <<"alloc">>
                     /\ pc' = "swap"
                     /\ allocFailures' = allocFailures
                ELSE /\ allocFailures < MaxAllocFailures
                     /\ scenario.id = "none"
                     /\ allocFailures' = allocFailures + 1
                     /\ hNewBrush' = NullBrush
                     /\ liveBrushes' = liveBrushes
                     /\ ops' = <<>>
                     /\ pc' = LoopTop
       ELSE /\ UNCHANGED <<grayLevel, hNewBrush, liveBrushes, allocFailures>>
            /\ ops' = <<>>
            /\ pc' = LoopTop

\* Keys of no case, and messages left to DefWindowProc
DoNothing ==
    /\ ops' = <<>>
    /\ pc' = LoopTop
    /\ UNCHANGED <<hwndValid, queue, destroyCount, teardownReleases, quitPending,
                   quitCount, classBrush, hOldBrush, grayLevel, hNewBrush,
                   liveBrushes, allocFailures>>

\* TranslateMessage(&msg); DispatchMessage(&msg); the window procedure is
\* called only for a window that exists.
Dispatch ==
    /\ pc = "dispatch"
    /\ toggledOff' = IF hwndValid /\ msg.message = "WM_KEYDOWN" /\ msg.wParam = "M"
                     THEN ~toggledOff ELSE toggledOff
    /\ IF ~hwndValid
       THEN DoNothing
       ELSE CASE WndProcCase(variant, msg) = "destroy" -> DoDestroy
              [] WndProcCase(variant, msg) = "lighter" -> DoAdjust(TRUE)
              [] WndProcCase(variant, msg) = "darker" -> DoAdjust(FALSE)
              [] OTHER -> DoNothing
    /\ UNCHANGED <<variant, registered, gHMainWnd, keepRunning, msg, mover,
                   exitCode, flagWrites, ticksAfter>>
    /\ UNCHANGED envVars
    /\ UNCHANGED <<lateArrivals, failures, lastRefused, powerCalls, cursor>>
    /\ scenario' = IF scenario.id # "none" /\ liveBrushes' > liveBrushes
                   THEN [scenario EXCEPT !.allocs = @ + 1]
                   ELSE scenario
    /\ UNCHANGED handlerOps
    /\ logged' = <<>>
    /\ UNCHANGED gIsVerbose

\* hOldBrush = (HBRUSH)SetClassLongPtr(hwnd, GCLP_HBRBACKGROUND, hNewBrush);
SwapBrush ==
    /\ pc = "swap"
    /\ hOldBrush' = classBrush
    /\ classBrush' = hNewBrush
    /\ ops' = Append(ops, "swap")
    /\ pc' = "release"
    /\ UNCHANGED <<variant, registered, gHMainWnd, keepRunning, hwndValid, queue,
                   quitPending, msg, grayLevel, liveBrushes, hNewBrush,
                   allocFailures, mover, exitCode, destroyCount,
                   teardownReleases, quitCount, flagWrites, ticksAfter>>
    /\ UNCHANGED envVars
    /\ UNCHANGED <<lateArrivals, failures, lastRefused, powerCalls, toggledOff, cursor>>
    /\ UNCHANGED <<scenario, handlerOps>>
    /\ logged' = <<>>
    /\ UNCHANGED gIsVerbose

\* if (hOldBrush) DeleteObject(hOldBrush);
ReleaseOld ==
    /\ pc = "release"
    /\ IF ShouldDelete(hOldBrush)
       THEN liveBrushes' = liveBrushes - 1 /\ ops' = Append(ops, "release")
       ELSE UNCHANGED <<liveBrushes, ops>>
    /\ pc' = "repaint"
    /\ UNCHANGED <<variant, registered, gHMainWnd, keepRunning, hwndValid, queue,
                   quitPending, msg, grayLevel, classBrush, hNewBrush, hOldBrush,
                   allocFailures, mover, exitCode, destroyCount,
                   teardownReleases, quitCount, flagWrites, ticksAfter>>
    /\ UNCHANGED envVars
    /\ UNCHANGED <<lateArrivals, failures, lastRefused, powerCalls, toggledOff, cursor>>
    /\ UNCHANGED <<scenario, handlerOps>>
    /\ logged' = <<>>
    /\ UNCHANGED gIsVerbose

\* InvalidateRect(hwnd, NULL, TRUE); logMessage(...); return
Repaint ==
    /\ pc = "repaint"
    /\ ops' = Append(ops, "repaint")
    /\ hNewBrush' = NullBrush
    /\ hOldBrush' = NullBrush
    /\ pc' = LoopTop
    /\ UNCHANGED <<variant, registered, gHMainWnd, keepRunning, hwndValid, queue,
                   quitPending, msg, grayLevel, classBrush, liveBrushes,
                   allocFailures, mover, exitCode, destroyCount,
                   teardownReleases, quitCount, flagWrites, ticksAfter>>
    /\ UNCHANGED envVars
    /\ UNCHANGED <<lateArrivals, failures, lastRefused, powerCalls, toggledOff, cursor>>
    /\ UNCHANGED <<scenario, handlerOps>>
    /\ logged' = LogMessage("brightness")
    /\ UNCHANGED gIsVerbose

----------------------------------------------------------------------------
(* The environment: the user and the console *)

LoopIdle == pc \in {"peek", "idle", "outer", "check"} /\ queue = <<>>

ClosingKind(m) ==
    IF m.message = "WM_CLOSE" THEN {"close"}
    ELSE IF m.message = "WM_KEYDOWN" /\ m.wParam = "VK_ESCAPE" THEN {"esc"}
    ELSE {}

\* A key-down or a close request reaches the window's queue.
UserInput ==
    /\ hwndValid
    /\ nInputs < MaxInputs
    /\ \E m \in UserMessages :
        /\ queue' = Append(queue, m)
        /\ lateArrivals' = Late(lateArrivals, 1)
        /\ triggered' = triggered \cup ClosingKind(m)
    /\ nInputs' = nInputs + 1
    /\ UNCHANGED <<variant, pc, registered, gHMainWnd, keepRunning, hwndValid,
                   quitPending, msg, grayLevel, classBrush, liveBrushes, hNewBrush,
                   hOldBrush, allocFailures, mover, ops, exitCode, nSignals,
                   handled, destroyCount, teardownReleases, quitCount,
                   flagWrites, sigIdle, ticksAfter>>
    /\ UNCHANGED <<failures, lastRefused, powerCalls, toggledOff, cursor>>
    /\ UNCHANGED <<scenario, handlerOps>>
    /\ logged' = <<>>
    /\ UNCHANGED gIsVerbose

\* consoleHandler(ctrlType), on the thread the OS runs it on. PostMessage
\* succeeds only for a window that exists.
ConsoleHandlerFor(kinds) ==
    /\ registered
    /\ pc \notin {"exited", "failed"}
    /\ nSignals < MaxSignals
    /\ nSignals' = nSignals + 1
    /\ \E ctrlType \in kinds :
        /\ lastRefused' = IF HandlerReturns(ctrlType) THEN lastRefused ELSE ctrlType
        /\ logged' = IF HandlerReturns(ctrlType) THEN LogMessage("shutdown") ELSE <<>>
        /\ IF HandlerReturns(ctrlType)
           THEN /\ handled' = TRUE
                /\ handlerOps' = HandlerSteps(variant, gHMainWnd)
                /\ triggered' = triggered \cup {"signal"}
                /\ IF variant = "posted"
                   THEN /\ queue' = IF gHMainWnd # "NULL" /\ hwndValid
                                    THEN Append(queue, ShutdownMsg)
                                    ELSE queue
                        /\ sigIdle' = (sigIdle \/ (LoopIdle /\ gHMainWnd # "NULL" /\ hwndValid))
                        /\ UNCHANGED <<keepRunning, flagWrites>>
                   ELSE /\ keepRunning' = HandlerStore(keepRunning)
                        /\ flagWrites' = [flagWrites EXCEPT !.handler = Bump(@)]
                        /\ sigIdle' = (sigIdle \/ LoopIdle)
                        /\ queue' = queue
           ELSE UNCHANGED <<handled, triggered, queue, sigIdle, keepRunning, flagWrites,
                            handlerOps>>
        /\ lateArrivals' = Late(lateArrivals, Len(queue') - Len(queue))
    /\ UNCHANGED <<variant, pc, registered, gHMainWnd, hwndValid, quitPending, msg,
                   grayLevel, classBrush, liveBrushes, hNewBrush, hOldBrush,
                   allocFailures, mover, ops, exitCode, nInputs, destroyCount,
                   teardownReleases, quitCount, ticksAfter>>
    /\ UNCHANGED <<failures, powerCalls, toggledOff, cursor>>
    /\ UNCHANGED scenario
    /\ UNCHANGED gIsVerbose

\* a handler that calls DestroyWindow(g_hMainWnd) itself instead of posting
ConsoleHandlerDestroys ==
    /\ registered
    /\ pc \notin {"exited", "failed"}
    /\ nSignals < MaxSignals
    /\ nSignals' = nSignals + 1
    /\ \E ctrlType \in CtrlTypes :
        /\ lastRefused' = IF HandlerReturns(ctrlType) THEN lastRefused ELSE ctrlType
        /\ logged' = IF HandlerReturns(ctrlType) THEN LogMessage("shutdown") ELSE <<>>
        /\ IF HandlerReturns(ctrlType)
           THEN /\ handled' = TRUE
                /\ triggered' = triggered \cup {"signal"}
                /\ hwndValid' = FALSE
                /\ queue' = <<>>
                /\ quitPending' = (quitPending \/ hwndValid)
                /\ liveBrushes' = IF hwndValid
                                  THEN liveBrushes - OnDestroyReleases(classBrush)
                                  ELSE liveBrushes
           ELSE UNCHANGED <<handled, triggered, hwndValid, queue, quitPending, liveBrushes>>
    /\ UNCHANGED <<variant, pc, registered, gHMainWnd, keepRunning, msg, grayLevel,
                   classBrush, hNewBrush, hOldBrush, allocFailures, mover, ops,
                   exitCode, nInputs, destroyCount, teardownReleases, quitCount,
                   flagWrites, sigIdle, ticksAfter, lateArrivals, failures,
                   powerCalls, toggledOff, cursor>>
    /\ UNCHANGED <<scenario, handlerOps>>
    /\ UNCHANGED gIsVerbose

\* consoleHandler, called for any kind of control event
ConsoleHandler == ConsoleHandlerFor(CtrlTypes)

\* The user at the light panel: brightness keys and Escape, one at a time,
\* as often as they like.
BrightMessages ==
    {KeyDown(k, sh) : k \in {"VK_UP", "VK_DOWN"}, sh \in BOOLEAN}
        \cup {KeyDown("VK_ESCAPE", FALSE)}

BrightInput ==
    /\ hwndValid
    /\ queue = <<>>
    /\ \E m \in BrightMessages :
        /\ queue' = Append(queue, m)
        /\ lateArrivals' = Late(lateArrivals, 1)
        /\ triggered' = triggered \cup ClosingKind(m)
    /\ UNCHANGED <<variant, pc, registered, gHMainWnd, keepRunning, hwndValid,
                   quitPending, msg, grayLevel, classBrush, liveBrushes, hNewBrush,
                   hOldBrush, allocFailures, mover, ops, exitCode, nInputs, nSignals,
                   handled, destroyCount, teardownReleases, quitCount,
                   flagWrites, sigIdle, ticksAfter>>
    /\ UNCHANGED <<failures, lastRefused, powerCalls, toggledOff, cursor>>
    /\ UNCHANGED <<scenario, handlerOps>>
    /\ logged' = <<>>
    /\ UNCHANGED gIsVerbose

\* The user of a scripted run presses the next key once the last one was taken
\* from the queue.
ScenarioInput ==
    /\ hwndValid
    /\ queue = <<>>
    /\ scenario.keys # <<>>
    /\ queue' = Append(queue, Head(scenario.keys))
    /\ scenario' = [scenario EXCEPT !.keys = Tail(@)]
    /\ lateArrivals' = Late(lateArrivals, 1)
    /\ UNCHANGED <<variant, pc, registered, gHMainWnd, keepRunning, hwndValid,
                   quitPending, msg, grayLevel, classBrush, liveBrushes, hNewBrush,
                   hOldBrush, allocFailures, mover, ops, exitCode, nInputs, nSignals,
                   handled, triggered, destroyCount, teardownReleases, quitCount,
                   flagWrites, sigIdle, ticksAfter, failures, lastRefused,
                   powerCalls, toggledOff, cursor, handlerOps>>
    /\ logged' = <<>>
    /\ UNCHANGED gIsVerbose

----------------------------------------------------------------------------
MainThread ==
    \/ RegisterHandler \/ CreateInitialBrush \/ RegisterClass \/ CreateWindow
    \/ ShowWindow \/ OuterCheck \/ PeekMessage \/ InnerCheck \/ Idle
    \/ Dispatch \/ SwapBrush \/ ReleaseOld \/ Repaint

Next == MainThread \/ UserInput \/ ConsoleHandler

Spec == Init /\ [][Next]_vars

\* The dispatch thread keeps running; the user and the console need not act.
FairSpec == Spec /\ WF_vars(MainThread)

\* The brightness controller under unbounded key presses.
BrightNext == MainThread \/ BrightInput

BrightSpec == Init /\ [][BrightNext]_vars

\* The console delivers only log-off and system-shutdown events
OtherSignal == ConsoleHandlerFor(OtherCtrlTypes)

OtherNext == MainThread \/ UserInput \/ OtherSignal

OtherSpec == Init /\ [][OtherNext]_vars

\* The program started with or without --verbose
VerboseSpec == InitArgs(ScreenSizes, {NoScenario}, BOOLEAN) /\ [][Next]_vars

\* The program left alone on screens of several sizes: no input, no signal,
\* the loop animates forever.
MoverNext ==
    \/ RegisterHandler \/ CreateInitialBrush \/ RegisterClass \/ CreateWindow
    \/ ShowWindow \/ OuterCheck \/ PeekMessage \/ InnerCheck \/ Idle

MoverSpec == InitWith(MoverScreens) /\ [][MoverNext]_vars

\* The scripted runs
ScenarioNext == MainThread \/ ScenarioInput

ScenarioSpec == InitFrom(ScreenSizes, Scenarios) /\ [][ScenarioNext]_vars

----------------------------------------------------------------------------
(* Properties *)

Max(a, b) == IF a > b THEN a ELSE b

\* The step of the dispatch thread that runs WndProc on msg
WndProcStep == pc = "dispatch" /\ hwndValid /\ pc' # pc

IsKey(k) == msg.message = "WM_KEYDOWN" /\ msg.wParam = k

\* C1: for every sequence of Up and Down key presses, with or without Shift,
\* starting from level 255, the brightness level is in [0,255] in every state.
C1_LevelInRange == grayLevel \in 0..255

\* The level came down to 0 by a Down press that changed it.
C1_Witness ==
    /\ grayLevel = 0
    /\ IsKey("VK_DOWN")
    /\ pc = LoopTop
    /\ ops = <<"alloc", "swap", "release", "repaint">>

\* C2: whichever trigger ends the run, when the dispatch loop has exited the
\* window has been destroyed and the background brush has been released.
C2_ExitThroughTerminating ==
    pc = "exited" => (~hwndValid /\ destroyCount = 1 /\ liveBrushes = 0)

\* C3: every termination signal for which the handler returned TRUE
\* eventually makes the dispatch loop exit, whenever it arrives.
C3_HandledSignalExits == handled ~> (pc \in {"exited", "failed"})

\* C4: for any combination of closing triggers the window is destroyed at
\* most once, WM_DESTROY releases the brush at most once and the quit event
\* is posted at most once.
C4_NoDoubleDestroy ==
    destroyCount <= 1 /\ teardownReleases <= 1 /\ quitCount <= 1

\* All three kinds of trigger were issued and the window was destroyed.
C4_Witness ==
    /\ triggered = {"esc", "close", "signal"}
    /\ destroyCount = 1 /\ teardownReleases = 1 /\ quitCount = 1
    /\ pc = "exited"

\* C5 as stated: the flag is written at most once and never by the dispatch
\* thread.
C5_WrittenOnceByHandler == flagWrites.dispatch = 0 /\ flagWrites.handler <= 1

\* C5 amended: keepRunning is initially true; every store writes false, so it
\* changes at most once and is never set back; the dispatch thread writes it
\* only when it has retrieved WM_QUIT.
C5_FlagOnlyCleared ==
    /\ keepRunning = TRUE
    /\ [][/\ (~keepRunning => ~keepRunning')
          /\ (flagWrites' # flagWrites => ~keepRunning')
          /\ (flagWrites'.dispatch # flagWrites.dispatch => msg' = QuitMsg)]_vars

\* Both threads have written the flag, the handler twice.
C5_Witness ==
    ~keepRunning /\ flagWrites.handler >= 2 /\ flagWrites.dispatch >= 1

\* C6 as stated: while the window exists exactly one brush is live, also
\* inside an adjustment.
C6_ExactlyOneLive == hwndValid => liveBrushes = 1

\* C6 amended: while the window exists a brush is installed in the slot and
\* exactly one brush is live, except between CreateSolidBrush and DeleteObject
\* inside an adjustment, where the new and the old brush are both live.
C6_OneLiveOutsideSwap ==
    hwndValid =>
        /\ classBrush # NullBrush
        /\ liveBrushes = IF pc \in {"swap", "release"} THEN 2 ELSE 1

\* Inside an adjustment, after the swap and before the old brush is deleted.
C6_Witness == hwndValid /\ pc = "release" /\ liveBrushes = 2

\* C7: Up at level 255 and Down at level 0 allocate nothing, release
\* nothing, request no repaint and leave the level unchanged, each time.
C7_NoOpAtExtremes ==
    [][(WndProcStep /\ ((IsKey("VK_UP") /\ grayLevel = 255)
                        \/ (IsKey("VK_DOWN") /\ grayLevel = 0)))
        => /\ grayLevel' = grayLevel
           /\ liveBrushes' = liveBrushes
           /\ classBrush' = classBrush
           /\ allocFailures' = allocFailures
           /\ ops' = <<>>
           /\ pc' = LoopTop]_vars

\* Down was pressed at level 0 and WndProc returned having done nothing.
C7_Witness ==
    /\ grayLevel = 0
    /\ IsKey("VK_DOWN")
    /\ pc = LoopTop
    /\ ops = <<>>
    /\ allocFailures = 0

\* C8: Up yields min(L+step,255) and Down yields max(L-step,0), where step is
\* 1 with Shift held and 10 otherwise.
C8_StepAndClamp ==
    [][WndProcStep =>
        LET step == IF msg.shift THEN 1 ELSE 10 IN
        /\ IsKey("VK_UP") => grayLevel' = Min(grayLevel + step, 255)
        /\ IsKey("VK_DOWN") => grayLevel' = Max(grayLevel - step, 0)]_vars

\* A fine Down step from 255 has been applied.
C8_Witness ==
    /\ grayLevel = 254
    /\ msg = KeyDown("VK_DOWN", TRUE)
    /\ pc = LoopTop
    /\ ops = <<"alloc", "swap", "release", "repaint">>

\* C9: once Escape, WM_CLOSE or WM_APP_SHUTDOWN is dispatched to the window,
\* the window is destroyed, the brush released and the quit event posted, and
\* the loop eventually exits.
ClosingDispatched ==
    /\ pc = "dispatch" /\ hwndValid
    /\ (IsKey("VK_ESCAPE") \/ msg.message \in {"WM_CLOSE", "WM_APP_SHUTDOWN"})

C9_ClosingTerminates ==
    /\ [][(ClosingDispatched /\ pc' # pc)
            => (~hwndValid' /\ liveBrushes' = 0 /\ quitPending')]_vars
    /\ (ClosingDispatched ~> pc = "exited")

\* The loop has exited after the shutdown notification destroyed the window.
C9_Witness ==
    /\ pc = "exited" /\ variant = "posted"
    /\ triggered = {"signal"}
    /\ destroyCount = 1 /\ liveBrushes = 0 /\ msg = QuitMsg

\* C10: after a signal that took effect while the loop was idle with an empty
\* queue, at most one further mover.update() runs.
C10_OneIdleCycle == ticksAfter <= 1

\* One animation step ran after the signal, and the loop has exited.
C10_Witness == sigIdle /\ ticksAfter = 1 /\ pc = "exited"

\* C11: an animation step runs only after PeekMessage found the queue empty:
\* when the loop is about to call mover.update(), every message in the queue
\* was posted after that observation, so every user-input or close message
\* queued before it has been dispatched.
C11_DrainedBeforeStep == pc = "idle" => Len(queue) = lateArrivals

\* Two user messages were queued and both were dispatched before the step.
C11_Witness ==
    /\ pc = "idle"
    /\ nInputs >= 2
    /\ queue = <<>>
    /\ msg.message \in {"WM_KEYDOWN", "WM_CLOSE"}

\* C12: the brightness level, the background brush and the mouse animator's
\* state are written only by the dispatch thread: no step of consoleHandler,
\* and no step that is not the dispatch thread's, changes any of them.
C12_OnlyDispatchThreadWrites ==
    [][(nSignals' # nSignals \/ pc' = pc)
          => UNCHANGED <<grayLevel, classBrush, liveBrushes, hNewBrush, hOldBrush,
                         mover, cursor>>]_vars

\* A handled signal arrived after the level and the brush had been changed and
\* the animator had moved.
C12_Witness ==
    /\ handled
    /\ hwndValid
    /\ grayLevel < InitialGrayLevel
    /\ classBrush = grayLevel
    /\ mover.x # kInitialX

\* C13: on every exit from the message loop the process exit code is the code
\* carried by the quit message (the 0 of PostQuitMessage(0)), also when the
\* exit was started by a console control event.
C13_ExitCodeOfQuit == pc = "exited" => exitCode = QuitMsg.wParam

FatalSteps == {"brush", "class", "window"}

\* C14: when CreateSolidBrush for the initial brush, RegisterClassEx or
\* CreateWindowEx fails, startup is aborted: main has returned EXIT_FAILURE,
\* the failed call was the last one attempted (nothing is retried, no later
\* step ran), and the message loop was never entered.
C14_FatalStartupAborts ==
    \A f \in FatalSteps :
        f \in failures =>
            /\ pc = "failed"
            /\ exitCode = "EXIT_FAILURE"
            /\ failures \cap FatalSteps = {f}
            /\ ~hwndValid
            /\ msg = EmptyMsg /\ cursor = CursorStart

\* The window could not be created after the brush and the class succeeded.
C14_Witness ==
    /\ "window" \in failures
    /\ liveBrushes = 1
    /\ classBrush # NullBrush
    /\ pc = "failed"

\* C15: a failure of SetConsoleCtrlHandler is not fatal: unless one of the
\* fatal startup calls fails as well, startup is not aborted by it.
C15_HandlerFailureNotFatal ==
    ("handler" \in failures /\ failures \cap FatalSteps = {}) => pc # "failed"

ShutdownKinds == {"CTRL_C_EVENT", "CTRL_BREAK_EVENT", "CTRL_CLOSE_EVENT"}

\* C16: for Ctrl+C, Ctrl+Break and console close the handler returns TRUE in
\* whatever state it is called: no call for one of these kinds has returned
\* FALSE, and when no call at all has returned FALSE every call made so far
\* has returned TRUE.
C16_ShutdownKindsHandled ==
    /\ lastRefused \notin ShutdownKinds
    /\ (nSignals > 0 /\ lastRefused = "NONE") => handled

\* The handler has returned TRUE before the window exists.
C16_Witness ==
    /\ handled
    /\ lastRefused = "NONE"
    /\ pc = "window"
    /\ ~hwndValid /\ destroyCount = 0

IsRestore(c) == c = "restore"

\* C17: on every exit path, with or without a successful inhibit request, the
\* power-state restore request has been issued exactly once when the process
\* exits.
C17_RestoredOnceAtExit ==
    pc \in {"exited", "failed"} => Len(SelectSeq(powerCalls, IsRestore)) = 1

IdleStep == pc = "idle" /\ pc' # pc

\* C19: each M key-down flips the animator between enabled and disabled,
\* starting enabled, and while it is disabled (after an odd number of M
\* key-downs) an animation tick leaves the cursor where it is and the
\* animator's position and velocity as they are.
C19_DisabledTickIsNoOp ==
    [][IdleStep /\ toggledOff => mover' = mover /\ cursor' = cursor]_vars

\* C20: each animation step puts the cursor at the current (x, y), then
\* advances x by dx and y by dy, then reverses dx exactly when the advanced x
\* is <= 0 or >= screenWidth - 1 and, independently, dy exactly when the
\* advanced y is <= 0 or >= screenHeight - 1 (both at a corner).
C20_StepMovesAndBounces ==
    [][IdleStep =>
          /\ cursor' = <<mover.x, mover.y>>
          /\ mover'.x = mover.x + mover.dx
          /\ mover'.y = mover.y + mover.dy
          /\ mover'.dx = IF mover'.x <= 0 \/ mover'.x >= mover.screenWidth - 1
                         THEN -mover.dx ELSE mover.dx
          /\ mover'.dy = IF mover'.y <= 0 \/ mover'.y >= mover.screenHeight - 1
                         THEN -mover.dy ELSE mover.dy
          /\ mover'.screenWidth = mover.screenWidth
          /\ mover'.screenHeight = mover.screenHeight]_vars

\* A step has just hit the right edge away from the top and bottom edges: dx
\* is reversed, dy is not.
C20_Witness ==
    /\ mover.x >= mover.screenWidth - 1 /\ mover.x <= mover.screenWidth
    /\ mover.y > 0 /\ mover.y < mover.screenHeight - 1
    /\ mover.dx = -kVelocity
    /\ mover.dy = kVelocity
    /\ cursor = <<mover.x - kVelocity, mover.y - kVelocity>>

OnScreen(p, m) ==
    /\ 0 <= p[1] /\ p[1] <= m.screenWidth - 1
    /\ 0 <= p[2] /\ p[2] <= m.screenHeight - 1

\* C21: on every screen, also one smaller than the start position, and after
\* any number of animation steps, each position given to SetCursorPos is on
\* the screen: 0 <= x <= screenWidth - 1 and 0 <= y <= screenHeight - 1.
C21_CursorOnScreen == [][IdleStep => OnScreen(cursor', mover)]_vars

\* C22: from (100,100) with velocity (+2,+2), the tick that brings x to
\* screenWidth - 1 or beyond while moving right leaves dx = -2, and dx stays so
\* until the next tick is entered; the same for y, dy and screenHeight.
C22_BounceBeforeNextTick ==
    [][/\ (IdleStep /\ mover.dx = kVelocity /\ mover'.x >= mover.screenWidth - 1)
            => mover'.dx = -kVelocity
       /\ (IdleStep /\ mover.dy = kVelocity /\ mover'.y >= mover.screenHeight - 1)
            => mover'.dy = -kVelocity
       /\ (pc \notin {"idle", "show"}) => mover' = mover]_vars

\* The next tick is entered after the first tick that reached the right edge.
C22_Witness ==
    /\ pc = "idle"
    /\ mover.screenWidth > kInitialX + 1
    /\ cursor[1] = mover.x - kVelocity
    /\ mover.x >= mover.screenWidth - 1
    /\ mover.dx = -kVelocity

\* C23: in every state dx and dy are +2 or -2: a bounce reverses the sign and
\* never changes the magnitude.
C23_VelocityMagnitude ==
    /\ mover.dx \in {kVelocity, -kVelocity}
    /\ mover.dy \in {kVelocity, -kVelocity}

\* Both signs have been reversed, at different ticks, and x has bounced back
\* from the left edge.
C23_Witness ==
    /\ mover.dx = kVelocity
    /\ mover.dy = -kVelocity
    /\ mover.x = kVelocity
    /\ cursor[1] = 0

\* C24: WndProc ignores a key-down of a key other than Escape, Up, Down and M:
\* the step that handles it changes neither the level, nor a brush, nor the
\* animator, nor the window, and the loop goes on (the program stays Running).
C24_OtherKeyIgnored ==
    [][(WndProcStep /\ IsKey("OTHER")) =>
          /\ UNCHANGED <<grayLevel, classBrush, liveBrushes, hNewBrush, hOldBrush,
                         mover, cursor, hwndValid, quitPending, keepRunning,
                         queue, exitCode>>
          /\ ops' = <<>>
          /\ pc' = LoopTop]_vars

\* Such a key has been handled after the level had been changed, and the
\* window is still there.
C24_Witness ==
    /\ IsKey("OTHER")
    /\ pc = LoopTop
    /\ hwndValid
    /\ grayLevel < InitialGrayLevel
    /\ classBrush = grayLevel

FullAdjustment == <<"alloc", "swap", "release", "repaint">>

\* The scripted run id is at rest: every key pressed so far has been handled.
AtRest(id) == scenario.id = id /\ LoopIdle

\* C25: from level 255, Down without Shift gives 245 with one swap and one
\* repaint; Down pressed 30 more times with Shift held then gives 225.
C25_DownScenario ==
    AtRest("down") =>
        /\ Len(scenario.keys) = 30 => (grayLevel = 245 /\ ops = FullAdjustment)
        /\ scenario.keys = <<>> => grayLevel = 225

\* C25 as the code has it: the first press gives 245 with one allocation,
\* swap, release and repaint; after j of the 30 presses with Shift the level is
\* 245 - j, each press a full adjustment of its own, so the run ends at 215
\* with 31 brushes allocated and the clamp at 0 never reached.
C25_DownScenarioTo215 ==
    AtRest("down") =>
        \A j \in 0..30 :
            Len(scenario.keys) = 30 - j =>
                /\ grayLevel = 245 - j
                /\ classBrush = grayLevel
                /\ ops = FullAdjustment
                /\ scenario.allocs = 1 + j

\* The run is over.
C25_Witness ==
    /\ AtRest("down")
    /\ scenario.keys = <<>>
    /\ grayLevel = 215
    /\ pc = "idle"

\* C26: from level 0, after k coarse Up presses the level is min(10k, 255): it
\* first is 255 at press 26, the presses 27 to 100 change nothing and allocate
\* nothing, and the brushes allocated over the presses are as many as the
\* presses that changed the level: min(k, 26), 26 in all. (The 26 Down presses
\* that bring the level from 255 to 0 first allocate 26 brushes themselves.)
C26_UpScenario ==
    AtRest("up") =>
        \A k \in 0..100 :
            Len(scenario.keys) = 100 - k =>
                /\ grayLevel = Min(10 * k, 255)
                /\ classBrush = grayLevel
                /\ scenario.allocs - 26 = Min(k, 26)
                /\ k > 26 => ops = <<>>
                /\ k = 26 => ops = FullAdjustment

\* All hundred presses are done.
C26_Witness ==
    /\ AtRest("up")
    /\ scenario.keys = <<>>
    /\ grayLevel = 255
    /\ scenario.allocs = 52
    /\ ops = <<>>

\* The step of the dispatch thread that leaves position p
StepFrom(p) == pc = p /\ pc' # pc

C28_LevelIsBrushLevel == (hwndValid /\ pc # "swap") => grayLevel = classBrush

\* C29: once the window is destroyed and its brush released, nothing changes
\* the level or allocates, installs or releases a brush any more: no message
\* that was still queued is handled by an adjustment.
C29_NoAdjustmentAfterTeardown ==
    [][(teardownReleases > 0 \/ (destroyCount > 0 /\ ~hwndValid))
          => UNCHANGED <<grayLevel, classBrush, liveBrushes, hNewBrush, hOldBrush,
                         allocFailures>>]_vars

\* The window was destroyed with messages still in its queue, and the loop
\* has ended.
C29_Witness ==
    /\ ~hwndValid
    /\ teardownReleases = 1
    /\ ops # <<>> /\ ops[Len(ops)] = "flush"
    /\ pc = "exited"

Signalling == {"post", "store"}

\* C30: a consoleHandler call for a kind it handles logs the event, then
\* signals the dispatch thread (posts the shutdown message or clears the
\* flag), then waits to give the dispatch thread time to act, and only then
\* returns.
C30_LogSignalWaitReturn ==
    handled =>
        \E i, j, k, l \in DOMAIN handlerOps :
            /\ i < j /\ j < k /\ k < l
            /\ handlerOps[i] = "log"
            /\ handlerOps[j] \in Signalling
            /\ handlerOps[k] = "wait"
            /\ handlerOps[l] = "return"

\* C31: on every startup-failure exit path no paint resource remains live:
\* when the window class registration or the window creation fails after the
\* initial brush was created, the brush was released before the process
\* exits.
C31_NoBrushLiveAfterStartupFailure == pc = "failed" => liveBrushes = 0

\* The steps of one brightness adjustment: the window procedure called for
\* an Up or Down key, and the swap, release and repaint that follow it
AdjustStep ==
    /\ pc' # pc
    /\ \/ /\ pc = "dispatch" /\ hwndValid
          /\ WndProcCase(variant, msg) \in {"lighter", "darker"}
       \/ pc \in {"swap", "release", "repaint"}

\* What decides whether the program runs, shuts down or has exited
Lifecycle == <<hwndValid, keepRunning, quitPending, exitCode, destroyCount>>

\* C32: brightness and animation are independent: a brightness adjustment
\* leaves the animator (position, velocity, screen size) unchanged, an
\* animation step leaves the level and the brushes unchanged, and neither
\* changes the lifecycle state.
C32_BrightnessAnimationIndependent ==
    [][/\ AdjustStep => UNCHANGED <<mover, cursor, Lifecycle>>
       /\ IdleStep => UNCHANGED <<grayLevel, classBrush, liveBrushes, hNewBrush,
                                  hOldBrush, Lifecycle>>]_vars

\* The level was changed and shown, and the animator has moved on from its
\* initial position, in a program that is still running.
C32_Witness ==
    /\ hwndValid /\ pc = "peek"
    /\ grayLevel # InitialGrayLevel /\ classBrush = grayLevel
    /\ mover.x # kInitialX

\* The window procedure called for an Up or Down key
AdjustCall ==
    WndProcStep /\ WndProcCase(variant, msg) \in {"lighter", "darker"}

\* C33: without --verbose no step writes a line; with it, every adjustment
\* that changes the level goes on to write exactly one line (the line of its
\* repaint step, and no other step writes that line), and an adjustment
\* absorbed by the clamp writes none.
C33_OneLinePerBrightnessChange ==
    [][/\ ~gIsVerbose => logged' = <<>>
       /\ gIsVerbose =>
            /\ (AdjustCall /\ grayLevel' # grayLevel)
                    => (logged' = <<>> /\ pc' = "swap")
            /\ StepFrom("swap") => (logged' = <<>> /\ pc' = "release")
            /\ StepFrom("release") => (logged' = <<>> /\ pc' = "repaint")
            /\ StepFrom("repaint") => logged' = <<"brightness">>
            /\ (\E i \in DOMAIN logged' : logged'[i] = "brightness")
                    => StepFrom("repaint")
            /\ (AdjustCall /\ grayLevel' = grayLevel)
                    => (logged' = <<>> /\ pc' = LoopTop)]_vars

\* C34: when every control event delivered is of a kind other than Ctrl+C,
\* Ctrl+Break and console close, every call of the handler returns FALSE and
\* the handler has touched nothing of the shutdown channel: it has logged
\* and signalled nothing, written the flag never, and no shutdown message
\* was posted to the queue or retrieved from it.
C34_OtherKindsNotHandled ==
    /\ nSignals > 0 => lastRefused \in OtherCtrlTypes
    /\ ~handled
    /\ handlerOps = <<>>
    /\ flagWrites.handler = 0
    /\ \A i \in DOMAIN queue : queue[i] # ShutdownMsg
    /\ msg # ShutdownMsg
    /\ "signal" \notin triggered

\* Two such events were delivered while the loop was running, and the
\* program runs on.
C34_Witness ==
    /\ nSignals = MaxSignals
    /\ lastRefused = "CTRL_SHUTDOWN_EVENT"
    /\ hwndValid /\ keepRunning /\ ~quitPending
    /\ pc = "idle"
    /\ ticksAfter = 0

====
